---- MODULE Spec2Model ----
(***************************************************************************)
(* Model of TFifo<K, V> (src/src/sorting/t_fifo.rs): a time-ordered FIFO   *)
(* made of an ordered map `root` (out-of-order pairs) and a deque `list`   *)
(* (in-order pairs), with the number of stored pairs cached in `len`; and   *)
(* of reciprocal_scale_u8/u16/u32 (src/src/hashing/scaling.rs), the        *)
(* multiply-shift scaling of a value into [0, ep_ro).                      *)
(***************************************************************************)
EXTENDS Integers, Sequences, FiniteSets, Bags, TLC

\* Bounds of the model: keys are 1..MaxKey, values are 1..MaxVal and at most
\* MaxInserts calls of insert are made in one run.
MaxKey == 3
MaxVal == 2
MaxInserts == 3

\* The limbs that the sampled arguments of reciprocal_scale are made of lie
\* within MaxEdge of 0 and of 255, or are 127 or 128.
MaxEdge == 0

Keys == 1..MaxKey
Values == 1..MaxVal

VARIABLES
    root,       \* BTreeMap<K, VecDeque<V>>: function from the present keys to sequences of values
    list,       \* VecDeque<(K, V)>: sequence of <<key, value>>
    len,        \* usize
    panicked,   \* TRUE once an unwrap() has panicked
    lastOp,     \* history: the last method called ("new", "insert", "pop", "peek")
    ret,        \* history: what the last pop or peek returned
    prevOp,     \* history: the method called before the last one
    prevRet,    \* history: what that call returned
    src,        \* history: the tier the last pop took its pair from
    inserted,   \* history: the pairs passed to insert, in call order
    popped,     \* history: the pairs returned by pop, in call order
    rootIns,    \* history: the pairs that insert put in root, in call order
    rootPop,    \* history: the pairs that pop took from root, in call order
    phase,      \* history: "fill" until the first pair is popped, "drain" while only
                \* pops follow, "mixed" once an insert follows a pop that returned a pair
    width,      \* the width in bits of the reciprocal_scale function under call (0: none)
    val1,       \* a first argument val, as little-endian base-256 limbs
    val2,       \* another first argument val, scaled by the same ep_ro
    ep_ro,      \* the second argument
    out1,       \* reciprocal_scale(val1, ep_ro)
    out2,       \* reciprocal_scale(val2, ep_ro)
    overflow,   \* TRUE when a product did not fit the double-width intermediate
    truncated,  \* TRUE when a narrowing cast dropped a non-zero limb
    scalePc     \* "idle" (no call), "call" (arguments chosen), "done" (results returned)

tfifoVars ==
    <<root, list, len, panicked, lastOp, ret, prevOp, prevRet, src,
      inserted, popped, rootIns, rootPop, phase>>

scaleVars == <<width, val1, val2, ep_ro, out1, out2, overflow, truncated, scalePc>>

vars == <<tfifoVars, scaleVars>>

\* Option<(K, V)>
None == [some |-> FALSE]
Some(k, v) == [some |-> TRUE, key |-> k, value |-> v]
SomePair(p) == Some(p[1], p[2])

\* BTreeMap::new()
EmptyMap == [k \in {} |-> <<>>]

\* TFifo::new
new == [root |-> EmptyMap, list |-> <<>>, len |-> 0]

\* TFifo::len
TFifoLen == len

\* TFifo::is_empty
is_empty == len = 0

\* first_key taking the highest key instead (last_entry for first_entry)
last_key(r) == CHOOSE k \in DOMAIN r : \A j \in DOMAIN r : k >= j

\* BTreeMap::first_entry / first_key_value: the lowest key of a non-empty map
first_key(r) == CHOOSE k \in DOMAIN r : \A j \in DOMAIN r : k <= j

\* goes_to_list comparing with > where the code compares with >=
goes_to_list_strict(l, key) == l = <<>> \/ key > l[Len(l)][1]

\* goes_to_list comparing with the front of the list (front() for back())
goes_to_list_front(l, key) == l = <<>> \/ key >= l[1][1]

\* goes_to_list without the comparison: only an empty list takes the pair
goes_to_list_empty_only(l, key) == l = <<>>

\* VecDeque::back on the list, compared with the new key (insert, lines 37-48):
\* the pair goes to the list when the list is empty or key >= the last key
goes_to_list(l, key) == l = <<>> \/ key >= l[Len(l)][1]

\* root_push_back overwriting the entry of the key (root.insert(key, [value]))
root_push_back_replace(r, key, value) ==
    [k \in DOMAIN r \cup {key} |-> IF k = key THEN <<value>> ELSE r[k]]

\* root_push_back pushing at the front of the entry (push_front for push_back)
root_push_front(r, key, value) ==
    [k \in DOMAIN r \cup {key} |->
        IF k = key
        THEN (IF key \in DOMAIN r THEN <<value>> \o r[key] ELSE <<value>>)
        ELSE r[k]]

\* root.entry(key).or_insert_with(VecDeque::new).push_back(value)
root_push_back(r, key, value) ==
    [k \in DOMAIN r \cup {key} |->
        IF k = key
        THEN (IF key \in DOMAIN r THEN Append(r[key], value) ELSE <<value>>)
        ELSE r[k]]

\* root_pop_front leaving the drained entry in the map
root_pop_front_keep(r, key) == [r EXCEPT ![key] = Tail(r[key])]

\* values.pop_front() on the entry of `key`, then root.remove(&key) if it is empty
root_pop_front(r, key) ==
    IF Tail(r[key]) = <<>>
    THEN [k \in DOMAIN r \ {key} |-> r[k]]
    ELSE [r EXCEPT ![key] = Tail(r[key])]

\* pop_takes_list never taking the list while the map has an entry
pop_takes_list_never(l, r) == FALSE

\* pop_takes_list taking the list whenever it has a pair
pop_takes_list_any(l, r) == l # <<>>

\* pop: "the first value from the list if it is smaller than the first root entry"
pop_takes_list(l, r) == l # <<>> /\ l[1][1] < first_key(r)

\* peek_takes_list comparing with <= where pop compares with <
peek_takes_list_le(l, r) == l # <<>> /\ l[1][1] <= first_key(r)

\* peek: the same test, written a second time in the code
peek_takes_list(l, r) == l # <<>> /\ l[1][1] < first_key(r)

\* insert counting the pair only after the early returns of the list path
insert_len_late(r, l, n, key, value) ==
    IF goes_to_list(l, key)
    THEN [root |-> r, list |-> Append(l, <<key, value>>), len |-> n]
    ELSE [root |-> root_push_back(r, key, value), list |-> l, len |-> n + 1]

\* TFifo::insert: the fields after insert(key, value)
insert(r, l, n, key, value) ==
    IF goes_to_list(l, key)
    THEN [root |-> r, list |-> Append(l, <<key, value>>), len |-> n + 1]
    ELSE [root |-> root_push_back(r, key, value), list |-> l, len |-> n + 1]

\* VecDeque::pop_front on the list, as the result of pop
list_pop_front(r, l, n) ==
    IF l = <<>>
    THEN [root |-> r, list |-> l, len |-> n, ret |-> None, src |-> "none", panic |-> FALSE]
    ELSE [root |-> r, list |-> Tail(l), len |-> n, ret |-> SomePair(Head(l)),
          src |-> "list", panic |-> FALSE]

\* pop decrementing len only after the early return of the empty-map path
pop_len_late(r, l, n) ==
    IF n = 0
    THEN [root |-> r, list |-> l, len |-> n, ret |-> None, src |-> "none", panic |-> FALSE]
    ELSE IF DOMAIN r = {}
    THEN list_pop_front(r, l, n)
    ELSE IF pop_takes_list(l, r)
    THEN list_pop_front(r, l, n - 1)
    ELSE LET key == first_key(r) IN
         IF r[key] = <<>>
         THEN [root |-> r, list |-> l, len |-> n - 1, ret |-> None, src |-> "none",
               panic |-> TRUE]
         ELSE [root |-> root_pop_front(r, key), list |-> l, len |-> n - 1,
               ret |-> Some(key, Head(r[key])), src |-> "root", panic |-> FALSE]

\* pop without the test of len == 0
pop_no_guard(r, l, n) ==
    IF DOMAIN r = {}
    THEN list_pop_front(r, l, n - 1)
    ELSE IF pop_takes_list(l, r)
    THEN list_pop_front(r, l, n - 1)
    ELSE LET key == first_key(r) IN
         IF r[key] = <<>>
         THEN [root |-> r, list |-> l, len |-> n - 1, ret |-> None, src |-> "none",
               panic |-> TRUE]
         ELSE [root |-> root_pop_front(r, key), list |-> l, len |-> n - 1,
               ret |-> Some(key, Head(r[key])), src |-> "root", panic |-> FALSE]

\* TFifo::pop: the fields after pop(), what it returns and whether it panics
pop(r, l, n) ==
    IF n = 0
    THEN [root |-> r, list |-> l, len |-> n, ret |-> None, src |-> "none", panic |-> FALSE]
    ELSE IF DOMAIN r = {}
    THEN list_pop_front(r, l, n - 1)
    ELSE IF pop_takes_list(l, r)
    THEN list_pop_front(r, l, n - 1)
    ELSE LET key == first_key(r) IN
         IF r[key] = <<>>
         THEN [root |-> r, list |-> l, len |-> n - 1, ret |-> None, src |-> "none",
               panic |-> TRUE]
         ELSE [root |-> root_pop_front(r, key), list |-> l, len |-> n - 1,
               ret |-> Some(key, Head(r[key])), src |-> "root", panic |-> FALSE]

\* TFifo::peek: what it returns and whether it panics
peek(r, l, n) ==
    IF n = 0
    THEN [ret |-> None, panic |-> FALSE]
    ELSE IF DOMAIN r = {}
    THEN [ret |-> IF l = <<>> THEN None ELSE SomePair(Head(l)), panic |-> FALSE]
    ELSE IF peek_takes_list(l, r)
    THEN [ret |-> SomePair(Head(l)), panic |-> FALSE]
    ELSE LET key == first_key(r) IN
         IF r[key] = <<>>
         THEN [ret |-> None, panic |-> TRUE]
         ELSE [ret |-> Some(key, Head(r[key])), panic |-> FALSE]

----------------------------------------------------------------------------
\* Unsigned integers of reciprocal_scale, as little-endian sequences of
\* base-256 limbs: a uN is a sequence of N / 8 limbs.

\* the widths of u8, u16, u32 and u64
W8 == 8
W16 == 16
W32 == 32
W64 == 64

Base == 2 ^ W8
Limbs(w) == w \div W8
Zeros(n) == [i \in 1..n |-> 0]
IsZero(x) == \A i \in DOMAIN x : x[i] = 0

\* the exact product of two limb sequences, Len(a) + Len(b) limbs long
RECURSIVE ColSum(_, _, _, _)
ColSum(a, b, k, i) ==
    IF i > Len(a) \/ i > k + 1 THEN 0
    ELSE a[i] * b[k + 2 - i] + ColSum(a, b, k, i + 1)
RECURSIVE Propagate(_, _, _, _)
Propagate(a, b, k, carry) ==
    IF k = Len(a) + Len(b) THEN <<>>
    ELSE LET first == IF k + 1 > Len(b) THEN k + 2 - Len(b) ELSE 1
             t == ColSum(a, b, k, first) + carry
         IN  <<t % Base>> \o Propagate(a, b, k + 1, t \div Base)
BigMul(a, b) == Propagate(a, b, 0, 0)

\* widen keeping the width of the argument (the `as u16` forgotten)
widen_not(x, w) == x

\* `x as uW` to a wider type: zero extension
widen(x, w) == x \o Zeros(Limbs(w) - Len(x))

\* `a * b` on two operands of one type: the low limbs of the exact product
wrapping_mul(a, b) == SubSeq(BigMul(a, b), 1, Len(a))

\* shr shifting by 8 bits less
shr_short(x, bits) ==
    SubSeq(x, Limbs(bits), Len(x)) \o Zeros(Limbs(bits) - 1)

\* shr not shifting at all
shr_none(x, bits) == x

\* `x >> bits`, bits a multiple of 8
shr(x, bits) == SubSeq(x, Limbs(bits) + 1, Len(x)) \o Zeros(Limbs(bits))

\* `x as uW` to a narrower type: the low limbs
narrow(x, w) == SubSeq(x, 1, Limbs(w))

\* what `((val as u2W * ep_ro as u2W) >> W) as uW` loses: whether the product
\* overflows u2W and whether the cast to uW drops a non-zero limb
scale_flags(val, factor, w) ==
    LET a == widen(val, 2 * w)
        b == widen(factor, 2 * w)
        p == BigMul(a, b)
        shifted == shr(SubSeq(p, 1, Len(a)), w)
    IN  [overflow |-> ~IsZero(SubSeq(p, Len(a) + 1, Len(p))),
         truncated |-> ~IsZero(SubSeq(shifted, Limbs(w) + 1, Len(shifted)))]

\* ((val as u16 * ep_ro as u16) >> 8) as u8
reciprocal_scale_u8(val, factor) ==
    narrow(shr(wrapping_mul(widen(val, W16), widen(factor, W16)), W8), W8)

\* ((val as u32 * ep_ro as u32) >> 16) as u16
reciprocal_scale_u16(val, factor) ==
    narrow(shr(wrapping_mul(widen(val, W32), widen(factor, W32)), W16), W16)

\* ((val as u64 * ep_ro as u64) >> 32) as u32
reciprocal_scale_u32(val, factor) ==
    narrow(shr(wrapping_mul(widen(val, W64), widen(factor, W64)), W32), W32)

\* comparison of two limb sequences of one length
BigLt(a, b) ==
    \E i \in DOMAIN a : a[i] < b[i] /\ \A j \in DOMAIN a : j > i => a[j] = b[j]
BigLe(a, b) == a = b \/ BigLt(a, b)

\* the sampled limbs and the sampled values of a width
EdgeLimbs ==
    (0..MaxEdge) \cup {Base \div 2 - 1, Base \div 2} \cup ((Base - 1 - MaxEdge)..(Base - 1))
Samples(w) ==
    IF Limbs(w) = 1 THEN {<<e>> : e \in EdgeLimbs}
    ELSE {<<lo>> \o [i \in 1..(Limbs(w) - 2) |-> mid] \o <<hi>> :
            lo \in EdgeLimbs, mid \in {0, Base - 1}, hi \in EdgeLimbs}

\* no call of reciprocal_scale
ScaleIdle ==
    /\ width = 0
    /\ val1 = <<>> /\ val2 = <<>> /\ ep_ro = <<>>
    /\ out1 = <<>> /\ out2 = <<>>
    /\ overflow = FALSE /\ truncated = FALSE
    /\ scalePc = "idle"

Init ==
    /\ root = new.root
    /\ list = new.list
    /\ len = new.len
    /\ panicked = FALSE
    /\ lastOp = "new"
    /\ ret = None
    /\ prevOp = "new"
    /\ prevRet = None
    /\ src = "none"
    /\ inserted = <<>>
    /\ popped = <<>>
    /\ rootIns = <<>>
    /\ rootPop = <<>>
    /\ phase = "fill"
    /\ ScaleIdle

Insert(key, value) ==
    /\ ~panicked
    /\ Len(inserted) < MaxInserts
    /\ LET s == insert(root, list, len, key, value) IN
        /\ root' = s.root
        /\ list' = s.list
        /\ len' = s.len
        /\ rootIns' = IF s.root # root THEN Append(rootIns, <<key, value>>) ELSE rootIns
    /\ lastOp' = "insert"
    /\ prevOp' = lastOp
    /\ prevRet' = ret
    /\ ret' = None
    /\ src' = "none"
    /\ inserted' = Append(inserted, <<key, value>>)
    /\ phase' = IF phase = "fill" THEN "fill" ELSE "mixed"
    /\ UNCHANGED <<panicked, popped, rootPop>>
    /\ UNCHANGED scaleVars

Pop ==
    /\ ~panicked
    /\ LET s == pop(root, list, len) IN
        /\ root' = s.root
        /\ list' = s.list
        /\ len' = s.len
        /\ ret' = s.ret
        /\ src' = s.src
        /\ panicked' = s.panic
        /\ popped' = IF s.ret.some THEN Append(popped, <<s.ret.key, s.ret.value>>) ELSE popped
        /\ rootPop' = IF s.src = "root"
                      THEN Append(rootPop, <<s.ret.key, s.ret.value>>) ELSE rootPop
        /\ phase' = IF s.ret.some /\ phase = "fill" THEN "drain" ELSE phase
    /\ lastOp' = "pop"
    /\ prevOp' = lastOp
    /\ prevRet' = ret
    /\ UNCHANGED <<inserted, rootIns>>
    /\ UNCHANGED scaleVars

\* Peek removing the pair it returns
PeekRemoves ==
    /\ ~panicked
    /\ LET s == pop(root, list, len) IN
        /\ root' = s.root
        /\ list' = s.list
        /\ len' = s.len
        /\ ret' = s.ret
        /\ panicked' = s.panic
    /\ lastOp' = "peek"
    /\ prevOp' = lastOp
    /\ prevRet' = ret
    /\ src' = "none"
    /\ UNCHANGED <<inserted, popped, rootIns, rootPop, phase>>
    /\ UNCHANGED scaleVars

Peek ==
    /\ ~panicked
    /\ LET s == peek(root, list, len) IN
        /\ ret' = s.ret
        /\ panicked' = s.panic
    /\ lastOp' = "peek"
    /\ prevOp' = lastOp
    /\ prevRet' = ret
    /\ src' = "none"
    /\ UNCHANGED <<root, list, len, inserted, popped, rootIns, rootPop, phase>>
    /\ UNCHANGED scaleVars

Next ==
    \/ \E key \in Keys, value \in Values : Insert(key, value)
    \/ Pop
    \/ Peek

Spec == Init /\ [][Next]_vars

\* the TFifo fields and their history, untouched by reciprocal_scale
TFifoFresh ==
    /\ root = new.root /\ list = new.list /\ len = new.len
    /\ panicked = FALSE /\ lastOp = "new" /\ ret = None
    /\ prevOp = "new" /\ prevRet = None /\ src = "none"
    /\ inserted = <<>> /\ popped = <<>> /\ rootIns = <<>> /\ rootPop = <<>>
    /\ phase = "fill"

\* a width and arguments of that width, val1 <= val2
ScaleInit ==
    /\ TFifoFresh
    /\ width \in {W8, W16, W32}
    /\ val1 \in Samples(width) /\ val2 \in Samples(width) /\ ep_ro \in Samples(width)
    /\ BigLe(val1, val2)
    /\ out1 = <<>> /\ out2 = <<>>
    /\ overflow = FALSE /\ truncated = FALSE
    /\ scalePc = "call"

\* the two calls of the function of width w, returning r1 for (val1, ep_ro)
\* and r2 for (val2, ep_ro)
ScaleCall(w, r1, r2) ==
    /\ scalePc = "call"
    /\ width = w
    /\ out1' = r1
    /\ out2' = r2
    /\ LET f1 == scale_flags(val1, ep_ro, w)
           f2 == scale_flags(val2, ep_ro, w)
       IN  /\ overflow' = (f1.overflow \/ f2.overflow)
           /\ truncated' = (f1.truncated \/ f2.truncated)
    /\ scalePc' = "done"
    /\ UNCHANGED <<width, val1, val2, ep_ro>>
    /\ UNCHANGED tfifoVars

ScaleU8 ==
    ScaleCall(W8, reciprocal_scale_u8(val1, ep_ro), reciprocal_scale_u8(val2, ep_ro))
ScaleU16 ==
    ScaleCall(W16, reciprocal_scale_u16(val1, ep_ro), reciprocal_scale_u16(val2, ep_ro))
ScaleU32 ==
    ScaleCall(W32, reciprocal_scale_u32(val1, ep_ro), reciprocal_scale_u32(val2, ep_ro))

ScaleNext ==
    \/ ScaleU8
    \/ ScaleU16
    \/ ScaleU32

SpecScale == ScaleInit /\ [][ScaleNext]_vars

----------------------------------------------------------------------------
\* Helpers of the properties

\* the keys of a sequence of pairs are non-decreasing
NonDecreasing(s) == \A i, j \in DOMAIN s : i <= j => s[i][1] <= s[j][1]

\* the values of the pairs of s whose key is k, in the order of s
RECURSIVE ValuesOfKey(_, _)
ValuesOfKey(s, k) ==
    IF s = <<>> THEN <<>>
    ELSE IF Head(s)[1] = k THEN <<Head(s)[2]>> \o ValuesOfKey(Tail(s), k)
    ELSE ValuesOfKey(Tail(s), k)

IsPrefix(s, t) == Len(s) <= Len(t) /\ \A i \in DOMAIN s : s[i] = t[i]

\* the keys stored in either tier
StoredKeys == DOMAIN root \cup {list[i][1] : i \in DOMAIN list}

\* the number of values held by the map
RECURSIVE RootCountOver(_, _)
RootCountOver(r, S) ==
    IF S = {} THEN 0
    ELSE LET k == CHOOSE x \in S : TRUE IN Len(r[k]) + RootCountOver(r, S \ {k})
RootCount(r) == RootCountOver(r, DOMAIN r)

\* the multiset of the elements of a sequence
BagOfSeq(s) ==
    [x \in {s[i] : i \in DOMAIN s} |-> Cardinality({i \in DOMAIN s : s[i] = x})]

\* the multiset of the pairs held by the map
RECURSIVE RootBagOver(_, _)
RootBagOver(r, S) ==
    IF S = {} THEN EmptyBag
    ELSE LET k == CHOOSE x \in S : TRUE IN
         BagOfSeq([i \in DOMAIN r[k] |-> <<k, r[k][i]>>]) (+) RootBagOver(r, S \ {k})
StoredBag == BagOfSeq(list) (+) RootBagOver(root, DOMAIN root)

----------------------------------------------------------------------------
\* C1: when all the insert calls come before the pops, the keys returned by
\* the pops are non-decreasing.
C1_DrainNonDecreasing == phase # "mixed" => NonDecreasing(popped)

\* a drain that ended with pop returning None, after out-of-order inserts
C1_Witness ==
    /\ phase = "drain" /\ lastOp = "pop" /\ ~ret.some /\ len = 0
    /\ Len(popped) >= 3 /\ ~NonDecreasing(inserted)

\* C2: when all the insert calls come before the pops, the pairs of one key
\* are popped in the order of their insertion, whichever tier held them.
C2_FifoPerKey ==
    phase # "mixed" =>
        \A k \in Keys : IsPrefix(ValuesOfKey(popped, k), ValuesOfKey(inserted, k))

\* C3: a pop that returns a pair returns one whose key is <= every key still
\* stored, and it takes the front of the list when that key is strictly below
\* the lowest key of a non-empty map.
C3_PopReturnsMinimum ==
    [][(lastOp' = "pop" /\ ret'.some) =>
        /\ \A k \in StoredKeys' : ret'.key <= k
        /\ (DOMAIN root # {} /\ list # <<>> /\ list[1][1] < first_key(root))
              => (src' = "list" /\ ret' = SomePair(Head(list)) /\ root' = root)]_vars

\* a pop took the front of the list while the map was not empty
C3_Witness == lastOp = "pop" /\ ret.some /\ src = "list" /\ DOMAIN root # {}

\* C4: len() is the number of insert calls minus the number of pops that
\* returned a pair, and is_empty() is true exactly when len() is 0.
C4_LenIsInsertsMinusPops ==
    /\ TFifoLen = Len(inserted) - Len(popped)
    /\ is_empty <=> (TFifoLen = 0)

\* inserts and pops interleaved, pairs left in the queue
C4_Witness == phase = "mixed" /\ Len(popped) = 1 /\ TFifoLen = 2

\* C5: a pop right after a peek returns what the peek returned, a pair or None.
C5_PeekThenPop == (lastOp = "pop" /\ prevOp = "peek") => ret = prevRet

\* a peek and then a pop both returned a pair of the map, the list holding
\* a pair of the same key
C5_Witness ==
    /\ lastOp = "pop" /\ prevOp = "peek" /\ ret.some /\ src = "root"
    /\ list # <<>> /\ list[1][1] = ret.key

\* C6: peek leaves root, list and len unchanged, and a peek right after a
\* peek returns the same result.
C6_PeekIsPure ==
    [][lastOp' = "peek" =>
        /\ UNCHANGED <<root, list, len>>
        /\ lastOp = "peek" => ret' = ret]_vars

\* two peeks in a row returned a pair
C6_Witness == lastOp = "peek" /\ prevOp = "peek" /\ ret.some /\ prevRet = ret

\* C7: the pairs stored in the two tiers are, as a multiset, the inserted
\* pairs minus the popped pairs.
C7_PairsConserved == StoredBag (+) BagOfSeq(popped) = BagOfSeq(inserted)

\* both tiers hold pairs, a pair was popped and one pair was inserted twice
C7_Witness ==
    /\ DOMAIN root # {} /\ list # <<>> /\ Len(popped) >= 1
    /\ \E i, j \in DOMAIN inserted : i < j /\ inserted[i] = inserted[j]

\* C8: len is the length of the list plus the lengths of the sequences of the map.
C8_LenIsStoredCount == len = Len(list) + RootCount(root)

\* a pop took a pair of the map and left pairs in both tiers
C8_Witness ==
    /\ lastOp = "pop" /\ src = "root" /\ list # <<>> /\ DOMAIN root # {}
    /\ len = 2

\* C9: with len = 0, is_empty() is true, pop and peek return None and pop
\* leaves root, list and len unchanged.
C9_EmptyReturnsNone ==
    [][len = 0 =>
        /\ is_empty
        /\ lastOp' = "pop" => (~ret'.some /\ UNCHANGED <<root, list, len>>)
        /\ lastOp' = "peek" => ~ret'.some]_vars

\* a peek and then a pop returned None on a queue emptied by pops
C9_Witness ==
    /\ lastOp = "pop" /\ prevOp = "peek" /\ ~ret.some /\ ~prevRet.some
    /\ len = 0 /\ Len(popped) >= 1

\* C10: no key of the map has an empty sequence.
C10_NoEmptyEntry == \A k \in DOMAIN root : root[k] # <<>>

\* a pop took the last value of a key of the map, and the key is gone while
\* another key remains
C10_Witness ==
    /\ lastOp = "pop" /\ src = "root" /\ ret.some
    /\ ret.key \notin DOMAIN root /\ DOMAIN root # {}

\* x + 1, one limb longer than x
RECURSIVE BigSucc(_)
BigSucc(x) ==
    IF x = <<>> THEN <<1>>
    ELSE IF Head(x) < Base - 1 THEN <<Head(x) + 1>> \o Tail(x) \o <<0>>
    ELSE <<0>> \o BigSucc(Tail(x))

\* x * 2^bits
shl(x, bits) == Zeros(Limbs(bits)) \o x

\* q = floor(v * f / 2^w): q * 2^w <= v * f < (q + 1) * 2^w
IsFloorScaled(q, v, f, w) ==
    LET p == BigMul(v, f) \o <<0>>
    IN  /\ Len(q) = Limbs(w)
        /\ BigLe(shl(q, w) \o <<0>>, p)
        /\ BigLt(p, shl(BigSucc(q), w))

\* C11: the values that insert put in root under one key are taken from root
\* by pop in the order of their insertion.
C11_RootFifoPerKey ==
    \A k \in Keys : IsPrefix(ValuesOfKey(rootPop, k), ValuesOfKey(rootIns, k))

\* pop took from root two different values of one key
C11_Witness ==
    \E i, j \in DOMAIN rootPop :
        i < j /\ rootPop[i][1] = rootPop[j][1] /\ rootPop[i][2] # rootPop[j][2]

\* C15: insert(key, value) appends the pair to the list and leaves root alone
\* when the list is empty or key >= the last key of the list; otherwise it
\* appends value to the sequence of key in root (created if absent) and leaves
\* the list alone. Either way len grows by 1 and no other pair moves.
C15_InsertRouting ==
    [][lastOp' = "insert" /\ inserted' # inserted =>
        LET key == inserted'[Len(inserted')][1]
            value == inserted'[Len(inserted')][2]
        IN  /\ len' = len + 1
            /\ IF list = <<>> \/ key >= list[Len(list)][1]
               THEN list' = list \o <<(<<key, value>>)>> /\ root' = root
               ELSE /\ list' = list
                    /\ DOMAIN root' = DOMAIN root \cup {key}
                    /\ \A k \in DOMAIN root \ {key} : root'[k] = root[k]
                    /\ root'[key] =
                         (IF key \in DOMAIN root THEN root[key] ELSE <<>>) \o <<value>>]_vars

\* the last insert appended to a sequence that root already held
C15_Witness ==
    /\ lastOp = "insert" /\ rootIns # <<>>
    /\ rootIns[Len(rootIns)] = inserted[Len(inserted)]
    /\ \E k \in DOMAIN root : Len(root[k]) >= 2

\* C16: the keys of the list are non-decreasing from front to back.
C16_ListSorted == NonDecreasing(list)

\* the list holds two pairs of different keys while root holds a pair
C16_Witness ==
    /\ Len(list) >= 2 /\ list[1][1] < list[Len(list)][1]
    /\ DOMAIN root # {}

\* C17: while the keys passed to insert are non-decreasing, root is empty, the
\* popped pairs are the first inserted pairs in insertion order, and the list
\* holds the rest in insertion order.
C17_InOrderIsPlainFifo ==
    NonDecreasing(inserted) =>
        /\ DOMAIN root = {}
        /\ IsPrefix(popped, inserted)
        /\ list = SubSeq(inserted, Len(popped) + 1, Len(inserted))

\* in-order inserts with two equal keys, interleaved with pops
C17_Witness ==
    /\ NonDecreasing(inserted) /\ phase = "mixed" /\ lastOp = "pop" /\ ret.some
    /\ Len(popped) >= 2 /\ popped[1][1] = popped[2][1] /\ popped[1][2] # popped[2][2]

\* C18: with len > 0, pop and peek return a pair and do not panic; pop
\* decrements len by 1 and removes exactly the pair it returns.
C18_NonEmptyReturnsSome ==
    [][len > 0 /\ ~panicked =>
        /\ lastOp' = "peek" => (ret'.some /\ ~panicked')
        /\ lastOp' = "pop" =>
              /\ ret'.some /\ ~panicked'
              /\ len' = len - 1
              /\ StoredBag' (+) SetToBag({<<ret'.key, ret'.value>>}) = StoredBag]_vars

\* a pop took the last pair of a queue whose last pair was in the list and
\* whose other pairs were in root
C18_Witness ==
    /\ lastOp = "pop" /\ ret.some /\ src = "list" /\ len = 0
    /\ Len(rootPop) >= 2

\* C19: when root is not empty the list is not empty and every key of root is
\* below the last key of the list; the list becomes empty only when root is
\* empty, and the pop that empties the queue takes its pair from the list.
C19_RootBelowListBack ==
    [][/\ DOMAIN root' # {} =>
            (list' # <<>> /\ \A k \in DOMAIN root' : k < list'[Len(list')][1])
       /\ (list # <<>> /\ list' = <<>>) => DOMAIN root = {}
       /\ (lastOp' = "pop" /\ ret'.some /\ len' = 0) => src' = "list"]_vars

\* the queue was drained after out-of-order inserts, the last pop taking the list
C19_Witness ==
    /\ lastOp = "pop" /\ ret.some /\ len = 0 /\ src = "list"
    /\ rootPop # <<>> /\ phase = "drain"

\* C12: for every width and every val, reciprocal_scale(val, ep_ro) < ep_ro
\* when ep_ro > 0.
C12_ScaleBelowFactor ==
    (scalePc = "done" /\ ~IsZero(ep_ro)) => (BigLt(out1, ep_ro) /\ BigLt(out2, ep_ro))

\* a 32-bit call with the largest val and a factor above 2^31
C12_Witness ==
    /\ scalePc = "done" /\ width = W32
    /\ val1 = [i \in 1..Limbs(W32) |-> Base - 1]
    /\ ep_ro[Limbs(W32)] >= Base \div 2 /\ ~IsZero(out1)

\* C13: for every width and every ep_ro, val1 <= val2 implies
\* reciprocal_scale(val1, ep_ro) <= reciprocal_scale(val2, ep_ro).
C13_ScaleMonotonic ==
    (scalePc = "done" /\ BigLe(val1, val2)) => BigLe(out1, out2)

\* a 16-bit call with val1 < val2 and different results
C13_Witness ==
    /\ scalePc = "done" /\ width = W16
    /\ BigLt(val1, val2) /\ BigLt(out1, out2)

\* C14: for every width, reciprocal_scale(val, ep_ro) is floor(val * ep_ro / 2^w):
\* the product does not overflow the double width and the cast drops nothing;
\* the 8-bit scale of 255 by 128 is 127.
C14_ScaleIsFloor ==
    scalePc = "done" =>
        /\ ~overflow /\ ~truncated
        /\ IsFloorScaled(out1, val1, ep_ro, width)
        /\ IsFloorScaled(out2, val2, ep_ro, width)
        /\ (width = W8 /\ val1 = <<Base - 1>> /\ ep_ro = <<Base \div 2>>)
              => out1 = <<Base \div 2 - 1>>
        /\ width = W8 => out1[1] = (val1[1] * ep_ro[1]) \div Base

\* the 8-bit scale of 255 by 128 was computed
C14_Witness ==
    /\ scalePc = "done" /\ width = W8
    /\ val1 = <<Base - 1>> /\ ep_ro = <<Base \div 2>> /\ out1 = <<Base \div 2 - 1>>

====
